---- MODULE Spec2Model ----
(***************************************************************************)
(* Authentication and authorization flow of the Jaycrest backend.          *)
(*                                                                         *)
(* The repository holds two builds of the service over the same `users`    *)
(* table: src/server.js (routes /api/auth/register, /api/auth/login) and   *)
(* src/unnamed/part_000 (routes /auth/register, /auth/login and the        *)
(* protected POST /students/profile).  `app` says which build is running.  *)
(* Every handler is cut at its awaits on pool.query: the code up to the    *)
(* query is one action, the database's execution of the statement together *)
(* with the handler's continuation is the next.  bcrypt and jsonwebtoken   *)
(* touch no shared state, so their awaits are not scheduling points.       *)
(***************************************************************************)
EXTENDS Bags, FiniteSets, Integers, Sequences, TLC

(* ------------------------------ bounds --------------------------------- *)
MaxInFlight == 2      \* exchanges the model holds at once (in flight or just answered)
MaxSeq      == 2      \* values drawn from a SERIAL sequence
MaxTicks    == 2      \* clock advances, each of TickSeconds

(* --------------------------- program constants ------------------------- *)
BcryptRounds == 10         \* bcrypt.hash(password, 10)
ExpiresIn    == 86400      \* jwt.sign(..., { expiresIn: "1d" }), in seconds
TickSeconds  == ExpiresIn \div 2   \* the clock moves in steps of half a day

Undefined   == "<undefined>"                       \* a JS value that is absent
RoleEnum    == {"student", "lecturer", "admin"}    \* CHECK (role IN (...))
JWT_SECRET  == "process.env.JWT_SECRET"
OtherSecret == "some other secret"

Apps == {"server", "part"}

(* ------------------------------ inputs --------------------------------- *)
Emails    == {"a@x.com", "b@x.com"}
Passwords == {"pw123", "pw456"}
Salts     == {"N9qo8uLOickgx2ZMRZoMye"}
MatricNos == {"CSC/001"}

\* register bodies: the well-formed ones, and those with one field missing,
\* empty or outside the enumeration
RegisterBodies ==
  (Emails \X {"pw123"} \X {"student", "lecturer"})
    \cup ({"", Undefined} \X {"pw123"} \X {"student"})
    \cup ({"a@x.com"} \X {"", Undefined} \X {"student"})
    \cup ({"a@x.com"} \X {"pw123"} \X {"guest", "", Undefined})
LoginBodies == Emails \X (Passwords \cup {Undefined})

Truthy(v) == v \notin {Undefined, ""}
IsString(v) == v # Undefined

VARIABLES app, users, users_id_seq, students, students_id_seq, now, reqs, wallet

vars == <<app, users, users_id_seq, students, students_id_seq, now, reqs, wallet>>

(* ----------------------------- bcryptjs -------------------------------- *)
\* bcrypt.hash(s, rounds) rejects unless s is a string; otherwise it yields
\* "$2a$" ++ rounds ++ salt ++ digest(rounds, salt, s).
BcryptHashOk(s) == IsString(s)
BcryptHash(s, rounds, salt) == <<"$2a$", rounds, salt, <<"digest", rounds, salt, s>>>>
\* bcrypt.compare(s, hash) re-hashes s with the cost and salt read from hash.
BcryptCompareOk(s) == IsString(s)
BcryptCompare(s, hash) == BcryptHash(s, hash[2], hash[3]) = hash

(* --------------------------- jsonwebtoken ------------------------------ *)
Hmac(secret, payload) == <<"HS256", secret, payload>>

\* variant: the validity window is dropped
JwtSignNoWindow(payload, secret, expiresIn, t) ==
  LET claims == [id |-> payload.id, role |-> payload.role, iat |-> t, exp |-> t]
  IN [jwt |-> [payload |-> claims, sig |-> Hmac(secret, claims)]]

\* jwt.sign(payload, secret, { expiresIn }) at time t
JwtSign(payload, secret, expiresIn, t) ==
  LET claims == [id |-> payload.id, role |-> payload.role,
                 iat |-> t, exp |-> t + expiresIn]
  IN [jwt |-> [payload |-> claims, sig |-> Hmac(secret, claims)]]

\* variant: the expiry is not looked at
JwtVerifyIgnoresExp(word, secret, t) ==
  IF word = {} THEN {}
  ELSE LET w == CHOOSE x \in word : TRUE
       IN IF "jwt" \notin DOMAIN w THEN {}
          ELSE IF w.jwt.sig # Hmac(secret, w.jwt.payload) THEN {}
          ELSE {w.jwt.payload}

\* jwt.verify(word, secret) at time t: the decoded payload, or {} when it throws
JwtVerify(word, secret, t) ==
  IF word = {} THEN {}                                     \* jwt must be provided
  ELSE LET w == CHOOSE x \in word : TRUE
       IN IF "jwt" \notin DOMAIN w THEN {}                 \* jwt malformed
          ELSE IF w.jwt.sig # Hmac(secret, w.jwt.payload) THEN {}   \* invalid signature
          ELSE IF t >= w.jwt.payload.exp THEN {}           \* jwt expired
          ELSE {w.jwt.payload}

(* --------------------------- HTTP exchange ----------------------------- *)
Response(status, body) == [status |-> status, body |-> body]
ErrorBody(msg) == [error |-> msg]

\* the JSON keys of a response body, those of a nested user object included
Keys(body) ==
  DOMAIN body \cup (IF "user" \in DOMAIN body THEN DOMAIN body.user ELSE {})

Lit(s) == [lit |-> s]
NoHeader == <<>>                   \* no Authorization header
EmptyHeader == <<Lit("")>>         \* "Authorization:" with an empty value
\* !header
Falsy(header) == header = NoHeader \/ header = EmptyHeader
\* header.split(" ")[1]
SplitSecond(header) == IF Len(header) >= 2 THEN {header[2]} ELSE {}

NewReq(route) ==
  [route |-> route, email |-> Undefined, password |-> Undefined, role |-> Undefined,
   matric_no |-> Undefined, header |-> NoHeader, at |-> 0, pc |-> "start",
   hash |-> <<>>, found |-> FALSE, valid |-> FALSE, dberr |-> "", user |-> {},
   trail |-> <<>>, res |-> <<>>]

\* res.status(status).json(body)
Send(r, status, body) ==
  [r EXCEPT !.pc = "done", !.res = Append(@, Response(status, body))]

\* An error thrown, or a promise rejected, outside every try block of an async
\* handler.  Express 4 never hears of it: no response is sent.  Express 5
\* forwards it to the default error handler, which answers 500.
ThrowOutcomes == {"express4", "express5"}
Throw(r, code, outcome) ==
  IF outcome = "express4"
  THEN [r EXCEPT !.pc = "unhandled", !.dberr = code]
  ELSE Send([r EXCEPT !.dberr = code], 500, [html |-> "Internal Server Error"])

\* the client keeps the bearer token of the latest 200 response that carries one
Kept(r) ==
  IF r.res # <<>> /\ r.res[1].status = 200 /\ "token" \in DOMAIN r.res[1].body
  THEN {r.res[1].body.token}
  ELSE wallet

Pending == BagToSet(reqs)
Replace(r, r2) == (reqs (-) SetToBag({r})) (+) SetToBag({r2})
Accept(r) == reqs (+) SetToBag({r})
CanAccept == BagCardinality(reqs) < MaxInFlight
Active(r) == r.pc \notin {"done", "unhandled"}

(* --------------------------- users table ------------------------------- *)
\* CREATE TABLE users: id SERIAL PRIMARY KEY, email TEXT UNIQUE NOT NULL,
\* password_hash TEXT NOT NULL, role TEXT [CHECK (role IN ...)] NOT NULL.
\* The CHECK on role is in part_000's DDL only.
RoleChecked == app = "part"

Project(row, cols) == [c \in cols |-> row[c]]

\* variant: the email column without its UNIQUE constraint
InsertUserCodeNoUnique(email, hash, role) ==
  IF email = Undefined \/ role = Undefined THEN "23502"
  ELSE IF RoleChecked /\ role \notin RoleEnum THEN "23514"
  ELSE ""

\* SQLSTATE raised by INSERT INTO users, "" when the row is accepted
InsertUserCode(email, hash, role) ==
  IF email = Undefined \/ role = Undefined THEN "23502"
  ELSE IF RoleChecked /\ role \notin RoleEnum THEN "23514"
  ELSE IF \E u \in users : u.email = email THEN "23505"
  ELSE ""

NewUserRow(email, hash, role) ==
  [id |-> users_id_seq + 1, email |-> email, password_hash |-> hash, role |-> role]

\* SELECT * FROM users WHERE email = $1
SelectUserByEmail(email) == {u \in users : email # Undefined /\ u.email = email}

(* ------------------- part_000: POST /auth/register --------------------- *)
Register(email, password, role, salt) ==
  /\ app = "part"
  /\ CanAccept
  /\ LET r == [NewReq("/auth/register") EXCEPT
                 !.email = email, !.password = password, !.role = role]
     IN IF ~Truthy(email) \/ ~Truthy(password) \/ ~Truthy(role)
        THEN reqs' = Accept(Send(r, 400, ErrorBody("All fields required")))
        ELSE reqs' = Accept([r EXCEPT !.pc = "insert",
                                      !.hash = BcryptHash(password, BcryptRounds, salt)])
  /\ UNCHANGED <<app, users, users_id_seq, students, students_id_seq, now, wallet>>

RegisterCatch(r, code) ==
  IF code = "23505"
  THEN Send([r EXCEPT !.dberr = code], 400, ErrorBody("Email already exists"))
  ELSE Send([r EXCEPT !.dberr = code], 500, ErrorBody("Registration failed"))

\* the database executes the INSERT and the handler resumes
RegisterQuery(r) ==
  /\ r \in Pending /\ r.route = "/auth/register" /\ r.pc = "insert"
  /\ users_id_seq < MaxSeq
  /\ LET code == InsertUserCode(r.email, r.hash, r.role)
         row  == NewUserRow(r.email, r.hash, r.role)
     IN /\ users_id_seq' = users_id_seq + 1
        /\ IF code = ""
           THEN /\ users' = users \cup {row}
                /\ reqs' = Replace(r, Send(r, 201,
                               [user |-> Project(row, {"id", "email", "role"})]))
           ELSE /\ users' = users
                /\ reqs' = Replace(r, RegisterCatch(r, code))
  /\ UNCHANGED <<app, students, students_id_seq, now, wallet>>

\* the query fails for a reason other than a constraint (connection lost, ...)
RegisterQueryFails(r) ==
  /\ r \in Pending /\ r.route = "/auth/register" /\ r.pc = "insert"
  /\ reqs' = Replace(r, RegisterCatch(r, "08006"))
  /\ UNCHANGED <<app, users, users_id_seq, students, students_id_seq, now, wallet>>

(* --------------------- part_000: POST /auth/login ---------------------- *)
Login(email, password) ==
  /\ app = "part"
  /\ CanAccept
  /\ reqs' = Accept([NewReq("/auth/login") EXCEPT
                       !.email = email, !.password = password, !.pc = "select"])
  /\ UNCHANGED <<app, users, users_id_seq, students, students_id_seq, now, wallet>>

\* variant: an unknown email is answered in its own words
LoginResumeTells(r, rows, outcome) ==
  IF rows = {}
  THEN Send(r, 401, ErrorBody("No such user"))
  ELSE LET user == CHOOSE u \in rows : TRUE
           f == [r EXCEPT !.found = TRUE]
       IN IF ~BcryptCompareOk(r.password) THEN Throw(f, "", outcome)
          ELSE IF ~BcryptCompare(r.password, user.password_hash)
          THEN Send(f, 401, ErrorBody("Invalid credentials"))
          ELSE Send([f EXCEPT !.valid = TRUE], 200,
                    [token |-> JwtSign([id |-> user.id, role |-> user.role],
                                       JWT_SECRET, ExpiresIn, now),
                     user |-> [id |-> user.id, email |-> user.email,
                               role |-> user.role]])

LoginResume(r, rows, outcome) ==
  IF rows = {}
  THEN Send(r, 401, ErrorBody("Invalid credentials"))
  ELSE LET user == CHOOSE u \in rows : TRUE
           f == [r EXCEPT !.found = TRUE]
       IN IF ~BcryptCompareOk(r.password) THEN Throw(f, "", outcome)
          ELSE IF ~BcryptCompare(r.password, user.password_hash)
          THEN Send(f, 401, ErrorBody("Invalid credentials"))
          ELSE Send([f EXCEPT !.valid = TRUE], 200,
                    [token |-> JwtSign([id |-> user.id, role |-> user.role],
                                       JWT_SECRET, ExpiresIn, now),
                     user |-> [id |-> user.id, email |-> user.email,
                               role |-> user.role]])

LoginQuery(r, outcome) ==
  /\ r \in Pending /\ r.route = "/auth/login" /\ r.pc = "select"
  /\ LET done == LoginResume(r, SelectUserByEmail(r.email), outcome)
     IN /\ reqs' = Replace(r, done)
        /\ wallet' = Kept(done)
  /\ UNCHANGED <<app, users, users_id_seq, students, students_id_seq, now>>

LoginQueryFails(r, outcome) ==
  /\ r \in Pending /\ r.route = "/auth/login" /\ r.pc = "select"
  /\ reqs' = Replace(r, Throw(r, "08006", outcome))
  /\ UNCHANGED <<app, users, users_id_seq, students, students_id_seq, now, wallet>>

(* ------------------ server.js: POST /api/auth/register ----------------- *)
ApiRegisterCatch(r, code) ==
  Send([r EXCEPT !.dberr = code], 400, ErrorBody("Registration failed"))

ApiRegister(email, password, role, salt) ==
  /\ app = "server"
  /\ CanAccept
  /\ LET r == [NewReq("/api/auth/register") EXCEPT
                 !.email = email, !.password = password, !.role = role]
     IN IF ~BcryptHashOk(password)
        THEN reqs' = Accept(ApiRegisterCatch(r, ""))
        ELSE reqs' = Accept([r EXCEPT !.pc = "insert",
                                      !.hash = BcryptHash(password, BcryptRounds, salt)])
  /\ UNCHANGED <<app, users, users_id_seq, students, students_id_seq, now, wallet>>

ApiRegisterQuery(r) ==
  /\ r \in Pending /\ r.route = "/api/auth/register" /\ r.pc = "insert"
  /\ users_id_seq < MaxSeq
  /\ LET code == InsertUserCode(r.email, r.hash, r.role)
         row  == NewUserRow(r.email, r.hash, r.role)
     IN /\ users_id_seq' = users_id_seq + 1
        /\ IF code = ""
           THEN /\ users' = users \cup {row}
                /\ reqs' = Replace(r, Send(r, 201, Project(row, {"id", "email", "role"})))
           ELSE /\ users' = users
                /\ reqs' = Replace(r, ApiRegisterCatch(r, code))
  /\ UNCHANGED <<app, students, students_id_seq, now, wallet>>

ApiRegisterQueryFails(r) ==
  /\ r \in Pending /\ r.route = "/api/auth/register" /\ r.pc = "insert"
  /\ reqs' = Replace(r, ApiRegisterCatch(r, "08006"))
  /\ UNCHANGED <<app, users, users_id_seq, students, students_id_seq, now, wallet>>

(* -------------------- server.js: POST /api/auth/login ------------------ *)
ApiLogin(email, password) ==
  /\ app = "server"
  /\ CanAccept
  /\ reqs' = Accept([NewReq("/api/auth/login") EXCEPT
                       !.email = email, !.password = password, !.pc = "select"])
  /\ UNCHANGED <<app, users, users_id_seq, students, students_id_seq, now, wallet>>

ApiLoginResume(r, rows, outcome) ==
  IF rows = {}
  THEN Send(r, 401, ErrorBody("Invalid credentials"))
  ELSE LET user == CHOOSE u \in rows : TRUE
           f == [r EXCEPT !.found = TRUE]
       IN IF ~BcryptCompareOk(r.password) THEN Throw(f, "", outcome)
          ELSE IF ~BcryptCompare(r.password, user.password_hash)
          THEN Send(f, 401, ErrorBody("Invalid credentials"))
          ELSE Send([f EXCEPT !.valid = TRUE], 200,
                    [token |-> JwtSign([id |-> user.id, role |-> user.role],
                                       JWT_SECRET, ExpiresIn, now)])

ApiLoginQuery(r, outcome) ==
  /\ r \in Pending /\ r.route = "/api/auth/login" /\ r.pc = "select"
  /\ LET done == ApiLoginResume(r, SelectUserByEmail(r.email), outcome)
     IN /\ reqs' = Replace(r, done)
        /\ wallet' = Kept(done)
  /\ UNCHANGED <<app, users, users_id_seq, students, students_id_seq, now>>

ApiLoginQueryFails(r, outcome) ==
  /\ r \in Pending /\ r.route = "/api/auth/login" /\ r.pc = "select"
  /\ reqs' = Replace(r, Throw(r, "08006", outcome))
  /\ UNCHANGED <<app, users, users_id_seq, students, students_id_seq, now, wallet>>

(* ------------------- part_000: auth middleware ------------------------- *)
\* variant: a missing header is answered as a role failure
AuthForbidsMissing(header, matric_no) ==
  /\ app = "part"
  /\ CanAccept
  /\ LET r == [NewReq("/students/profile") EXCEPT
                 !.header = header, !.matric_no = matric_no, !.at = now,
                 !.trail = <<"Unauthenticated">>]
     IN IF Falsy(header)
        THEN reqs' = Accept(Send(r, 403, ErrorBody("No token")))
        ELSE LET payload == JwtVerify(SplitSecond(header), JWT_SECRET, now)
             IN IF payload = {}
                THEN reqs' = Accept(Send(r, 401, ErrorBody("Invalid token")))
                ELSE reqs' = Accept([r EXCEPT !.user = payload, !.pc = "handler",
                                              !.trail = Append(@, "Authenticated")])
  /\ UNCHANGED <<app, users, users_id_seq, students, students_id_seq, now, wallet>>

\* A request to POST /students/profile arrives and the middleware runs.
Auth(header, matric_no) ==
  /\ app = "part"
  /\ CanAccept
  /\ LET r == [NewReq("/students/profile") EXCEPT
                 !.header = header, !.matric_no = matric_no, !.at = now,
                 !.trail = <<"Unauthenticated">>]
     IN IF Falsy(header)
        THEN reqs' = Accept(Send(r, 401, ErrorBody("No token")))
        ELSE LET payload == JwtVerify(SplitSecond(header), JWT_SECRET, now)
             IN IF payload = {}
                THEN reqs' = Accept(Send(r, 401, ErrorBody("Invalid token")))
                ELSE reqs' = Accept([r EXCEPT !.user = payload, !.pc = "handler",
                                              !.trail = Append(@, "Authenticated")])
  /\ UNCHANGED <<app, users, users_id_seq, students, students_id_seq, now, wallet>>

(* ------------------ part_000: POST /students/profile ------------------- *)
\* CREATE TABLE students: id SERIAL PRIMARY KEY, user_id REFERENCES users(id),
\* matric_no TEXT UNIQUE NOT NULL, ...  The name columns are taken as supplied.
InsertStudentCode(user_id, matric_no) ==
  IF matric_no = Undefined THEN "23502"
  ELSE IF \E s \in students : s.matric_no = matric_no THEN "23505"
  ELSE IF \A u \in users : u.id # user_id THEN "23503"
  ELSE ""

\* variant: admin passes the student gate
StudentsProfileHierarchy(r) ==
  /\ r \in Pending /\ r.route = "/students/profile" /\ r.pc = "handler"
  /\ LET user == CHOOSE u \in r.user : TRUE
     IN IF user.role \notin {"student", "admin"}
        THEN reqs' = Replace(r, Send([r EXCEPT !.trail = Append(@, "Forbidden")],
                                     403, ErrorBody("Only students allowed")))
        ELSE reqs' = Replace(r, [r EXCEPT !.pc = "insert",
                                          !.trail = Append(@, "Admitted")])
  /\ UNCHANGED <<app, users, users_id_seq, students, students_id_seq, now, wallet>>

\* next() has called the route handler: the role check, then the INSERT is sent
StudentsProfile(r) ==
  /\ r \in Pending /\ r.route = "/students/profile" /\ r.pc = "handler"
  /\ LET user == CHOOSE u \in r.user : TRUE
     IN IF user.role # "student"
        THEN reqs' = Replace(r, Send([r EXCEPT !.trail = Append(@, "Forbidden")],
                                     403, ErrorBody("Only students allowed")))
        ELSE reqs' = Replace(r, [r EXCEPT !.pc = "insert",
                                          !.trail = Append(@, "Admitted")])
  /\ UNCHANGED <<app, users, users_id_seq, students, students_id_seq, now, wallet>>

StudentsProfileQuery(r, outcome) ==
  /\ r \in Pending /\ r.route = "/students/profile" /\ r.pc = "insert"
  /\ students_id_seq < MaxSeq
  /\ LET user == CHOOSE u \in r.user : TRUE
         code == InsertStudentCode(user.id, r.matric_no)
         row  == [id |-> students_id_seq + 1, user_id |-> user.id,
                  matric_no |-> r.matric_no]
     IN /\ students_id_seq' = students_id_seq + 1
        /\ IF code = ""
           THEN /\ students' = students \cup {row}
                /\ reqs' = Replace(r, Send(r, 201, row))
           ELSE /\ students' = students
                /\ reqs' = Replace(r, Throw(r, code, outcome))
  /\ UNCHANGED <<app, users, users_id_seq, now, wallet>>

StudentsProfileQueryFails(r, outcome) ==
  /\ r \in Pending /\ r.route = "/students/profile" /\ r.pc = "insert"
  /\ reqs' = Replace(r, Throw(r, "08006", outcome))
  /\ UNCHANGED <<app, users, users_id_seq, students, students_id_seq, now, wallet>>

(* ------------------------------ environment ---------------------------- *)
\* a token whose payload was edited after signing
Tampered(t) ==
  {[jwt |-> [t.jwt EXCEPT !.payload.role = ro]] : ro \in RoleEnum \ {t.jwt.payload.role}}
    \cup {[jwt |-> [t.jwt EXCEPT !.payload.exp = @ + ExpiresIn]]}
    \cup {[jwt |-> [t.jwt EXCEPT !.sig = Hmac(OtherSecret, t.jwt.payload)]]}

\* a token made by someone who does not know JWT_SECRET
Forged ==
  {JwtSign([id |-> 1, role |-> "student"], OtherSecret, ExpiresIn, now)}

\* the Authorization headers a client may send
Headers ==
  {NoHeader, EmptyHeader, <<Lit("Bearer")>>, <<Lit("Bearer"), Lit("not.a.jwt")>>}
    \cup {<<Lit("Bearer"), t>> : t \in wallet \cup Forged}
    \cup {<<Lit("Bearer"), t>> : t \in UNION {Tampered(i) : i \in wallet}}

\* time passes
Tick ==
  /\ now < MaxTicks * TickSeconds
  /\ now' = now + TickSeconds
  /\ UNCHANGED <<app, users, users_id_seq, students, students_id_seq, reqs, wallet>>


\* the client has read the response (or given up waiting): the exchange is over
Forget(r) ==
  /\ r \in Pending /\ ~Active(r)
  /\ reqs' = reqs (-) SetToBag({r})
  /\ UNCHANGED <<app, users, users_id_seq, students, students_id_seq, now, wallet>>

Init ==
  /\ app \in Apps
  /\ users = {}
  /\ users_id_seq = 0
  /\ students = {}
  /\ students_id_seq = 0
  /\ now = 0
  /\ reqs = EmptyBag
  /\ wallet = {}

Next ==
  \/ \E b \in RegisterBodies, s \in Salts : Register(b[1], b[2], b[3], s)
  \/ \E r \in Pending : RegisterQuery(r)
  \/ \E r \in Pending : RegisterQueryFails(r)
  \/ \E b \in RegisterBodies, s \in Salts : ApiRegister(b[1], b[2], b[3], s)
  \/ \E r \in Pending : ApiRegisterQuery(r)
  \/ \E r \in Pending : ApiRegisterQueryFails(r)
  \/ \E r \in Pending : Forget(r)

Spec == Init /\ [][Next]_vars

(* registration followed by login: one account holder, one stranger *)
HolderBodies == {"a@x.com"} \X {"pw123"} \X RoleEnum

NextLogin ==
  \/ \E b \in HolderBodies, s \in Salts : Register(b[1], b[2], b[3], s)
  \/ \E r \in Pending : RegisterQuery(r)
  \/ \E b \in LoginBodies : Login(b[1], b[2])
  \/ \E r \in Pending, o \in ThrowOutcomes : LoginQuery(r, o)
  \/ \E r \in Pending, o \in ThrowOutcomes : LoginQueryFails(r, o)
  \/ \E b \in HolderBodies, s \in Salts : ApiRegister(b[1], b[2], b[3], s)
  \/ \E r \in Pending : ApiRegisterQuery(r)
  \/ \E b \in LoginBodies : ApiLogin(b[1], b[2])
  \/ \E r \in Pending, o \in ThrowOutcomes : ApiLoginQuery(r, o)
  \/ \E r \in Pending, o \in ThrowOutcomes : ApiLoginQueryFails(r, o)
  \/ \E r \in Pending : Forget(r)

LoginSpec == Init /\ [][NextLogin]_vars

(* the protected route of part_000 *)
InitGate == Init /\ app = "part"

\* the client of this scenario sends a request once the previous exchange is over
Quiet == reqs = EmptyBag

GateBodies == Emails \X {"pw123"} \X RoleEnum

NextGate ==
  \/ Quiet /\ \E b \in GateBodies, s \in Salts : Register(b[1], b[2], b[3], s)
  \/ \E r \in Pending : RegisterQuery(r)
  \/ Quiet /\ \E e \in Emails, p \in Passwords : Login(e, p)
  \/ \E r \in Pending, o \in ThrowOutcomes : LoginQuery(r, o)
  \/ Quiet /\ \E h \in Headers, m \in MatricNos \cup {Undefined} : Auth(h, m)
  \/ \E r \in Pending : StudentsProfile(r)
  \/ \E r \in Pending, o \in ThrowOutcomes : StudentsProfileQuery(r, o)
  \/ \E r \in Pending, o \in ThrowOutcomes : StudentsProfileQueryFails(r, o)
  \/ Tick
  \/ \E r \in Pending : Forget(r)

GateSpec == InitGate /\ [][NextGate]_vars

(***************************************************************************)
(*                               Properties                                *)
(***************************************************************************)
IsRegister(r) == r.route \in {"/auth/register", "/api/auth/register"}
IsLogin(r)    == r.route \in {"/auth/login", "/api/auth/login"}
IsProfile(r)  == r.route = "/students/profile"
Settled(r)    == ~Active(r)
Answered(r, status) == Len(r.res) = 1 /\ r.res[1].status = status

\* the account u was registered with this password
RegisteredWith(u, password) ==
  \E s \in Salts : u.password_hash = BcryptHash(password, BcryptRounds, s)

\* the value a response body gives for key k, at the top level or under "user"
Returned(body, k) ==
  IF k \in DOMAIN body THEN {body[k]}
  ELSE IF "user" \in DOMAIN body /\ k \in DOMAIN body.user THEN {body.user[k]}
  ELSE {}

\* what both builds answer when registration fails for an unspecified reason
GenericFailure == ErrorBody("Registration failed")

(* ---------------------------------- C1 --------------------------------- *)
\* C1: in every reachable state, whatever the interleaving of register
\* requests, no two stored accounts share an email and no two share an id.
C1_UniqueEmailAndId ==
  \A u, v \in users : (u.email = v.email \/ u.id = v.id) => u = v

\* two registers for one email were answered, one 201 and one duplicate
C1_Witness ==
  \E r1, r2 \in Pending :
    /\ IsRegister(r1) /\ IsRegister(r2) /\ r1.email = r2.email
    /\ Answered(r1, 201) /\ r2.dberr = "23505"
    /\ \E u \in users : u.email = r1.email

(* ---------------------------------- C2 --------------------------------- *)
\* C2: a register that hits the uniqueness violation is answered 400 with a
\* body that is not the generic failure body, and leaves the users table as
\* it was.
C2_DuplicateEmailError ==
  [][\A r \in BagToSet(reqs') :
       (r \notin Pending /\ IsRegister(r) /\ r.dberr = "23505")
          => /\ users' = users
             /\ Answered(r, 400)
             /\ r.res[1].body # GenericFailure]_vars

(* ---------------------------------- C3 --------------------------------- *)
\* C3: a login with the email and password of a registered account, whose
\* query did not fail, is answered 200 with that account's email and role;
\* and no register or login response has a password_hash or password key or
\* gives the plaintext password as the value of a text field.
C3_RegisterThenLogin ==
  \A r \in Pending :
    /\ (IsLogin(r) /\ Settled(r) /\ r.found /\ r.dberr = ""
          /\ \E u \in users : u.email = r.email /\ RegisteredWith(u, r.password))
         => \E u \in users :
              /\ u.email = r.email
              /\ Answered(r, 200)
              /\ Returned(r.res[1].body, "email") = {u.email}
              /\ Returned(r.res[1].body, "role") = {u.role}
    /\ \A i \in 1..Len(r.res) :
         /\ Keys(r.res[i].body) \cap {"password_hash", "password"} = {}
         /\ \A k \in Keys(r.res[i].body) \cap {"email", "role", "error", "html"} :
              Returned(r.res[i].body, k) # {r.password}

(* ---------------------------------- C4 --------------------------------- *)
WrongPassword(r) ==
  /\ IsLogin(r) /\ Settled(r) /\ r.dberr = "" /\ r.found
  /\ IsString(r.password)
  /\ \A u \in users : u.email = r.email => ~RegisteredWith(u, r.password)
UnknownEmail(r) ==
  IsLogin(r) /\ Settled(r) /\ r.dberr = "" /\ ~r.found

Bearer(t) == <<Lit("Bearer"), t>>

\* C5: a login response carries a token only if the password given is the
\* one the account was registered with, and the token names that account;
\* and a request that presents the token the client holds, at the very time
\* it was issued, is authenticated as the id and role of that account.
C5_TokenRoundTrip ==
  /\ \A r \in Pending :
       (IsLogin(r) /\ r.res # <<>> /\ "token" \in Keys(r.res[1].body))
         => \E u \in users :
              /\ u.email = r.email /\ RegisteredWith(u, r.password)
              /\ r.res[1].body.token.jwt.payload.id = u.id
              /\ r.res[1].body.token.jwt.payload.role = u.role
  /\ \A t \in wallet :
       \E u \in users : u.id = t.jwt.payload.id /\ u.role = t.jwt.payload.role
  /\ \A r \in Pending : \A t \in wallet :
       (IsProfile(r) /\ r.header = Bearer(t) /\ r.at = t.jwt.payload.iat)
         => /\ r.user = {t.jwt.payload}
            /\ ~Answered(r, 401)

C5_Witness ==
  \E r \in Pending : \E t \in wallet :
    /\ IsProfile(r) /\ r.header = Bearer(t) /\ r.at = t.jwt.payload.iat
    /\ r.user # {}

(* ---------------------------------- C6 --------------------------------- *)
HasJwt(r) == Len(r.header) >= 2 /\ "jwt" \in DOMAIN r.header[2]
GoodSignature(r) ==
  HasJwt(r) /\ r.header[2].jwt.sig = Hmac(JWT_SECRET, r.header[2].jwt.payload)
Unexpired(r) == HasJwt(r) /\ r.at < r.header[2].jwt.payload.exp
InvalidToken == Response(401, ErrorBody("Invalid token"))

\* C6: a request is authenticated only if its token is signed with
\* JWT_SECRET, expires 24 hours after its issue and has not expired when it
\* arrives; a request with a header whose token fails any of these is
\* answered 401 "Invalid token", gets no identity, and its handler never runs.
C6_AuthenticateRejects ==
  \A r \in Pending : IsProfile(r) =>
    /\ ((r.user # {} \/ Len(r.trail) > 1)
          => /\ GoodSignature(r) /\ Unexpired(r)
             /\ r.header[2].jwt.payload.exp = r.header[2].jwt.payload.iat + ExpiresIn)
    /\ ((~Falsy(r.header) /\ ~(GoodSignature(r) /\ Unexpired(r)))
          => /\ r.res = <<InvalidToken>>
             /\ r.user = {}
             /\ r.trail = <<"Unauthenticated">>)

\* a correctly signed token was presented after its expiry and rejected
C6_Witness ==
  \E r \in Pending :
    /\ IsProfile(r) /\ GoodSignature(r) /\ ~Unexpired(r)
    /\ r.res = <<InvalidToken>>

(* ---------------------------------- C7 --------------------------------- *)
\* C7: the handler of POST /students/profile admits a request only when the
\* authenticated role is exactly "student"; every other role is answered 403
\* once the handler has run, and every students row belongs to a student.
C7_ExactRoleMatch ==
  /\ \A r \in Pending : (IsProfile(r) /\ r.user # {}) =>
       \A id \in r.user :
         /\ (r.pc = "insert" \/ (Len(r.trail) > 2 /\ r.trail[3] = "Admitted"))
              => id.role = "student"
         /\ (id.role # "student" /\ r.pc # "handler")
              => Answered(r, 403) /\ r.trail[3] = "Forbidden"
  /\ \A s \in students :
       \E u \in users : u.id = s.user_id /\ u.role = "student"

\* a lecturer or an admin was turned away
C7_Witness ==
  \E r \in Pending :
    /\ IsProfile(r) /\ Answered(r, 403)
    /\ \E id \in r.user : id.role \in {"lecturer", "admin"}

(* ---------------------------------- C8 --------------------------------- *)
Trails ==
  {<<"Unauthenticated">>,
   <<"Unauthenticated", "Authenticated">>,
   <<"Unauthenticated", "Authenticated", "Admitted">>,
   <<"Unauthenticated", "Authenticated", "Forbidden">>}

FlowOk(r) ==
  /\ r.trail \in Trails
  /\ Len(r.res) <= 1
  /\ ((r.user # {}) <=> (Len(r.trail) >= 2))
  /\ ((r.pc = "handler") <=> (r.trail = <<"Unauthenticated", "Authenticated">>))
  /\ ((r.pc = "insert") => (r.trail[3] = "Admitted"))
  /\ (Falsy(r.header) => /\ Answered(r, 401) /\ r.res # <<InvalidToken>>
                         /\ r.trail = <<"Unauthenticated">>)
  /\ (Answered(r, 403) <=> (Len(r.trail) = 3 /\ r.trail[3] = "Forbidden"))
  /\ (Answered(r, 401) <=> (r.trail = <<"Unauthenticated">>))

\* C8: a protected request moves Unauthenticated -> Authenticated ->
\* Admitted | Forbidden and no other way; the handler runs and a 403 is sent
\* only for an authenticated identity; a request without Authorization
\* header is answered 401, never 403 and not as an invalid token; and every
\* authenticated request goes on to Admitted or Forbidden.
C8_ProtectedRequestFlow ==
  /\ [](\A r \in Pending : IsProfile(r) => FlowOk(r))
  /\ ((\E r \in Pending : r.pc = "handler") ~> (\A r \in Pending : r.pc # "handler"))

\* a request without header was short-circuited
C8_Witness ==
  \E r \in Pending :
    IsProfile(r) /\ r.header = NoHeader /\ Answered(r, 401)

\* next() calls the route handler at once
FairGateSpec == GateSpec /\ WF_vars(\E r \in Pending : StudentsProfile(r))

(* ---------------------------------- C9 --------------------------------- *)
InvalidBody(r) ==
  ~Truthy(r.email) \/ ~Truthy(r.password) \/ r.role \notin RoleEnum

\* C9: a register whose email, password or role is missing or empty, or
\* whose role is outside the enumeration, is answered 400 and stores
\* nothing; every stored account has an email and a role of the enumeration.
C9_ValidationError ==
  /\ \A r \in Pending :
       (IsRegister(r) /\ Settled(r) /\ InvalidBody(r)) => Answered(r, 400)
  /\ \A u \in users : Truthy(u.email) /\ u.role \in RoleEnum

(* ---------------------------------- C10 -------------------------------- *)
\* C10: a register or login whose storage call failed otherwise than by the
\* uniqueness violation has been answered exactly once, with status 500.
C10_StorageError ==
  \A r \in Pending :
    ((IsRegister(r) \/ IsLogin(r)) /\ r.dberr \notin {"", "23505"})
      => Answered(r, 500)
====
